---- MODULE Spec2Model ----
(***************************************************************************)
(* PlayUnreal client (src/python/playunreal/client.py) as a state machine. *)
(* The client objects, the class-level config cache and the game behind    *)
(* the Remote Control API are the state; every public method is an action. *)
(***************************************************************************)
EXTENDS Integers, Sequences, FiniteSets, TLC

VARIABLES
    pu,             \* PlayUnreal instances: the fields set in __init__
    cached_config,  \* PlayUnreal._cached_config, one per class
    game,           \* the game process behind the Remote Control API
    ret,            \* what the last finished call returned or raised
    sent,           \* the HTTP requests the last finished call issued
    calls           \* the calls in progress, one frame per thread

vars == <<pu, cached_config, game, ret, sent, calls>>

(***************************************************************************)
(* Python values.  Every value carries its type, so that isinstance, the   *)
(* truth test and == behave as in Python.                                  *)
(***************************************************************************)
NoneV == [t |-> "none", v |-> 0]
IntV(n) == [t |-> "int", v |-> n]
StrV(s) == [t |-> "str", v |-> s]
ListV(s) == [t |-> "list", v |-> s]
DictV(d) == [t |-> "dict", v |-> d]
BoolV(b) == [t |-> "bool", v |-> IF b THEN 1 ELSE 0]

EmptyDict == <<>>

\* bool(x) for the values above
Truthy(x) ==
    CASE x.t = "none" -> FALSE
      [] x.t = "int" -> x.v # 0
      [] x.t = "str" -> x.v # <<>>
      [] x.t = "list" -> x.v # <<>>
      [] x.t = "dict" -> DOMAIN x.v # {}
      [] OTHER -> TRUE

\* dict.get(key, default) on the mapping d
Get(d, key, default) == IF key \in DOMAIN d THEN d[key] ELSE default

\* d[key] = val on the mapping d
Put1(d, key, val) ==
    [k \in DOMAIN d \cup {key} |-> IF k = key THEN val ELSE d[k]]

(***************************************************************************)
(* Strings whose characters matter (game state names) are sequences of     *)
(* one-character strings; str.lower and the substring test work on them.   *)
(***************************************************************************)
LowerChar(c) ==
    CASE c = "T" -> "t" [] c = "S" -> "s" [] c = "P" -> "p"
      [] c = "D" -> "d" [] c = "R" -> "r" [] c = "C" -> "c"
      [] c = "G" -> "g" [] c = "O" -> "o" [] c = "E" -> "e"
      [] OTHER -> c

Lower(s) == [k \in 1..Len(s) |-> LowerChar(s[k])]

\* a in b, for strings
Contains(b, a) ==
    \E k \in 0..(Len(b) - Len(a)) : SubSeq(b, k + 1, k + Len(a)) = a

Title == <<"T", "i", "t", "l", "e">>
Spawning == <<"S", "p", "a", "w", "n", "i", "n", "g">>
Playing == <<"P", "l", "a", "y", "i", "n", "g">>
Paused == <<"P", "a", "u", "s", "e", "d">>
Dying == <<"D", "y", "i", "n", "g">>
RoundComplete ==
    <<"R", "o", "u", "n", "d", "C", "o", "m", "p", "l", "e", "t", "e">>
GameOver == <<"G", "a", "m", "e", "O", "v", "e", "r">>

\* state_map of wait_for_state
state_map ==
    [k \in 0..6 |->
        CASE k = 0 -> Title [] k = 1 -> Spawning [] k = 2 -> Playing
          [] k = 3 -> Paused [] k = 4 -> Dying [] k = 5 -> RoundComplete
          [] OTHER -> GameOver]

(***************************************************************************)
(* Exceptions and results.  A call either returns val or raises exc.       *)
(***************************************************************************)
Ok(val) == [exc |-> "none", val |-> val]
Raise(exc) == [exc |-> exc, val |-> NoneV]

\* the subclasses of PlayUnrealError
IsPlayUnrealError(exc) ==
    exc \in {"PlayUnrealError", "RCConnectionError", "CallError"}

\* Direction name -> FVector
DIRECTIONS ==
    [up |-> <<0, 1, 0>>, down |-> <<0, -1, 0>>,
     left |-> <<-1, 0, 0>>, right |-> <<1, 0, 0>>]

(***************************************************************************)
(* Object paths.                                                           *)
(***************************************************************************)
NoPath == <<>>

LevelPath(map_name, class_name, suffix) ==
    <<"/Game/Maps/", map_name, ":PersistentLevel.", class_name, suffix>>

DefaultPath(module_name, class_name) ==
    <<"/Script/", module_name, ".", "Default__", class_name>>

\* "Default__" in path
HasDefault(path) == \E k \in 1..Len(path) : path[k] = "Default__"

build_candidates(c, class_name) ==
    LET maps == <<c.map_name, "FroggerMap", "TestMap", "DefaultMap">>
        sfx == <<"_0", "_C_0", "_1">>
    IN  [k \in 1..12 |->
            LevelPath(maps[((k - 1) \div 3) + 1], class_name,
                      sfx[((k - 1) % 3) + 1])]
        \o <<DefaultPath(c.module_name, class_name)>>

(***************************************************************************)
(* HTTP transport.  A request is answered by the game as it is now.        *)
(***************************************************************************)
Req(endpoint, path, name, params) ==
    [ep |-> endpoint, path |-> path, name |-> name, params |-> params]

\* ReturnValue strings that carry JSON
JsonText(doc) == [t |-> "text", form |-> "json", doc |-> doc]
GarbageText == [t |-> "text", form |-> "garbage", doc |-> NoneV]
EmptyText == [t |-> "text", form |-> "empty", doc |-> NoneV]

TextTruthy(txt) == txt.form # "empty"

json_loads(txt) ==
    IF txt.form = "json" THEN Ok(txt.doc) ELSE Raise("JSONDecodeError")

\* the GridPosition property as the Remote Control API serialises it: the
\* struct as an object, or as its text form
GridPosition(g) ==
    IF g.positionAs = "struct"
    THEN DictV([X |-> IntV(g.frog[1]), Y |-> IntV(g.frog[2])])
    ELSE StrV(<<"(", "X", "=", ")">>)

\* the document GetGameStateJSON serialises
StateDoc(g) ==
    [score |-> g.score, lives |-> g.lives, wave |-> g.wave,
     frogPos |-> ListV(<<IntV(g.frog[1]), IntV(g.frog[2])>>),
     gameState |-> g.CurrentState, timeRemaining |-> g.RemainingTime,
     homeSlotsFilledCount |-> g.HomeSlotsFilledCount]

\* the document GetLaneHazardsJSON serialises; g.hazards is None when the
\* document has no "hazards" member
HazardsDoc(g) ==
    IF g.hazards = NoneV THEN EmptyDict ELSE [hazards |-> g.hazards]

TextOf(form, doc) ==
    CASE form = "json" -> JsonText(doc)
      [] form = "garbage" -> GarbageText
      [] OTHER -> EmptyText

\* what the game answers to a PUT it accepts
Answer(g, req) ==
    CASE req.ep = "describe" -> [Name |-> StrV(req.path)]
      [] req.ep = "property" ->
            CASE req.name = "CurrentState" -> [CurrentState |-> g.CurrentState]
              [] req.name = "CurrentWave" -> [CurrentWave |-> g.wave]
              [] req.name = "HomeSlotsFilledCount" ->
                    [HomeSlotsFilledCount |-> g.HomeSlotsFilledCount]
              [] req.name = "RemainingTime" ->
                    [RemainingTime |-> g.RemainingTime]
              [] OTHER -> [GridPosition |-> GridPosition(g)]
      [] req.name = "GetGameStateJSON" ->
            [ReturnValue |-> TextOf(g.stateJSON, DictV(StateDoc(g)))]
      [] req.name = "GetGameConfigJSON" ->
            [ReturnValue |-> TextOf(g.configJSON, DictV(g.config))]
      [] req.name = "GetLaneHazardsJSON" ->
            [ReturnValue |-> TextOf(g.hazardsJSON, DictV(HazardsDoc(g)))]
      [] OTHER -> EmptyDict

\* the game refuses the request with an HTTP error status
Refused(g, req) ==
    IF req.ep = "describe" THEN req.path \notin g.live
    ELSE req.name \in g.rejects

\* a transport that reports an unreachable game as a rejected call
put_rejecting(g, req) ==
    IF ~g.reachable \/ Refused(g, req) THEN Raise("CallError")
    ELSE Ok(DictV(Answer(g, req)))

put(g, req) ==
    IF ~g.reachable THEN Raise("RCConnectionError")
    ELSE IF Refused(g, req) THEN Raise("CallError")
    ELSE Ok(DictV(Answer(g, req)))

\* urllib's HTTPError is a URLError: a GET answered with an error status
\* raises RCConnectionError too; a body that is no JSON gives {}
get(g, endpoint) ==
    IF ~g.reachable \/ g.info = "error" THEN Raise("RCConnectionError")
    ELSE IF g.info = "garbage" THEN Ok(DictV(EmptyDict))
    ELSE Ok(DictV([Name |-> StrV(<<endpoint>>)]))

call_function(g, object_path, function_name, parameters) ==
    put(g, Req("call", object_path, function_name, parameters))

\* result.get(property_name, result) on the answer r of the PUT
property_of(r, property_name) ==
    IF r.exc # "none" THEN r ELSE Ok(Get(r.val.v, property_name, r.val))

read_property(g, object_path, property_name) ==
    property_of(put(g, Req("property", object_path, property_name, NoneV)),
                property_name)

\* except CallError: return None
none_on_call_error(r) == IF r.exc = "CallError" THEN Ok(NoneV) ELSE r

describe_object(g, object_path) ==
    none_on_call_error(put(g, Req("describe", object_path, "", NoneV)))

(***************************************************************************)
(* Object path discovery.  c is one client's fields.  Every operator from  *)
(* here on returns the client's fields after the call (c) and the requests *)
(* it issued (sent) beside its result.  A step of a method is split into   *)
(* the remote call and an operator that takes the call's answer.           *)
(***************************************************************************)
\* the least index in hits, or n + 1 when there is none: where a loop over
\* 1..n that leaves at the first hit stops
first_of(hits, n) ==
    IF hits = {} THEN n + 1 ELSE CHOOSE k \in hits : \A j \in hits : k <= j

\* a loop that takes the None of a rejected describe request for a hit
is_found_any_answer(r) == r.exc = "none"

\* "if result: return path" on the answer r of _describe_object, where a
\* RCConnectionError continues the loop
is_found(r) == r.exc = "none" /\ Truthy(r.val)

\* the for loop of _discover_path: the index of the candidate it returns,
\* or Len(candidates) + 1 when the loop runs out
probe(g, candidates) ==
    first_of({k \in 1..Len(candidates) :
                is_found(describe_object(g, candidates[k]))},
             Len(candidates))

\* what _discover_path returns when its loop stops at index k
discovered(candidates, k, fallback) ==
    [path |-> IF k > Len(candidates) THEN fallback ELSE candidates[k],
     sent |-> [j \in 1..(IF k > Len(candidates) THEN Len(candidates) ELSE k)
                  |-> Req("describe", candidates[j], "", NoneV)]]

discover_path(g, c, class_name) ==
    discovered(build_candidates(c, class_name),
               probe(g, build_candidates(c, class_name)),
               DefaultPath(c.module_name, class_name))

\* self._gm_path = <the discovery d>
store_gm_path(c, d) ==
    [path |-> d.path, c |-> [c EXCEPT !.gm_path = d.path], sent |-> d.sent]

\* a lookup that discovers the GameMode anew on every call
get_gm_path_rediscovering(g, c) ==
    store_gm_path(c, discover_path(g, c, c.gm_class))

get_gm_path(g, c) ==
    IF c.gm_path # NoPath
    THEN [path |-> c.gm_path, c |-> c, sent |-> <<>>]
    ELSE store_gm_path(c, discover_path(g, c, c.gm_class))

\* self._frog_path = <the discovery d>
store_frog_path(c, d) ==
    [path |-> d.path, c |-> [c EXCEPT !.frog_path = d.path], sent |-> d.sent]

get_frog_path(g, c) ==
    IF c.frog_path # NoPath
    THEN [path |-> c.frog_path, c |-> c, sent |-> <<>>]
    ELSE store_frog_path(c, discover_path(g, c, c.frog_class))

\* the result of a method: raised exception or returned value, the client's
\* fields afterwards, the requests issued
Res(exc, val, c, reqs) == [exc |-> exc, val |-> val, c |-> c, sent |-> reqs]

(***************************************************************************)
(* Public API.                                                             *)
(***************************************************************************)
\* hop once the frog path f is known
hop_request(g, f, direction) ==
    Res(call_function(g, f.path, "RequestHop", DIRECTIONS[direction]).exc,
        NoneV, f.c,
        Append(f.sent,
               Req("call", f.path, "RequestHop", DIRECTIONS[direction])))

\* hop that looks the frog up before it tests the direction
hop_validating_late(g, c, direction) ==
    IF direction \notin DOMAIN DIRECTIONS
    THEN Res("ValueError", NoneV, get_frog_path(g, c).c,
             get_frog_path(g, c).sent)
    ELSE hop_request(g, get_frog_path(g, c), direction)

hop(g, c, direction) ==
    IF direction \notin DOMAIN DIRECTIONS
    THEN Res("ValueError", NoneV, c, <<>>)
    ELSE hop_request(g, get_frog_path(g, c), direction)

\* the GameMode properties of the fallback, in the order they are read
gm_props ==
    <<<<"gameState", "CurrentState">>, <<"wave", "CurrentWave">>,
      <<"homeSlotsFilledCount", "HomeSlotsFilledCount">>,
      <<"timeRemaining", "RemainingTime">>>>

\* the first try block of the fallback, given what each read answers
\* (reads) and the index of the first read that raises (stop): a CallError
\* ends the block silently, any other error leaves get_state
gm_block(reads, stop, gm_path, reqs) ==
    [exc |-> IF stop <= Len(gm_props) /\ reads[stop].exc # "CallError"
             THEN reads[stop].exc ELSE "none",
     state |-> [key \in {gm_props[k][1] : k \in 1..(stop - 1)} |->
                  reads[CHOOSE k \in 1..(stop - 1) : gm_props[k][1] = key].val],
     sent |-> reqs \o
              [k \in 1..(IF stop > Len(gm_props) THEN Len(gm_props) ELSE stop)
                  |-> Req("property", gm_path, gm_props[k][2], NoneV)]]

\* a fallback that reads on after a read has raised
first_raise_ignored(reads) == Len(reads) + 1

\* the index of the first read that raises
first_raise(reads) ==
    first_of({k \in 1..Len(reads) : reads[k].exc # "none"}, Len(reads))

gm_reads(reads, gm_path, reqs) ==
    gm_block(reads, first_raise(reads), gm_path, reqs)

read_gm_props(g, gm_path, reqs) ==
    gm_reads([k \in 1..Len(gm_props) |->
                 read_property(g, gm_path, gm_props[k][2])],
             gm_path, reqs)

Zero2 == ListV(<<IntV(0), IntV(0)>>)

\* state["frogPos"] for the answer r of the GridPosition read
frog_pos(r) ==
    IF r.exc = "CallError" THEN Zero2
    ELSE IF r.val.t = "dict"
    THEN ListV(<<Get(r.val.v, "X", IntV(0)), Get(r.val.v, "Y", IntV(0))>>)
    ELSE Zero2

\* the end of get_state: m the first try block (run on the fields c), f the
\* frog path, r the answer of the GridPosition read
fallback_result(c, m, f, r) ==
    IF m.exc # "none" THEN Res(m.exc, NoneV, c, m.sent)
    ELSE IF r.exc \notin {"none", "CallError"}
    THEN Res(r.exc, NoneV, f.c,
             (m.sent \o f.sent)
             \o <<Req("property", f.path, "GridPosition", NoneV)>>)
    ELSE Res("none", DictV(Put1(m.state, "frogPos", frog_pos(r))), f.c,
             (m.sent \o f.sent)
             \o <<Req("property", f.path, "GridPosition", NoneV)>>)

fallback_frog(g, c, m, f) ==
    fallback_result(c, m, f, read_property(g, f.path, "GridPosition"))

\* get_state from "Fallback: read individual properties" on
get_state_fallback(g, c, gm_path, reqs) ==
    fallback_frog(g, c, read_gm_props(g, gm_path, reqs), get_frog_path(g, c))

\* result.get("ReturnValue", "") on the answer j of a function call
return_value(j) ==
    IF j.exc = "none" THEN Get(j.val.v, "ReturnValue", EmptyText)
    ELSE EmptyText

\* the ReturnValue of the answer j is non-empty and parses as JSON
parses(j) ==
    /\ j.exc = "none"
    /\ TextTruthy(return_value(j))
    /\ json_loads(return_value(j)).exc = "none"

\* get_state once the GameMode path p is known and GetGameStateJSON has
\* answered j
state_result(g, p, j) ==
    IF j.exc \notin {"none", "CallError"}
    THEN Res(j.exc, NoneV, p.c,
             Append(p.sent, Req("call", p.path, "GetGameStateJSON", NoneV)))
    ELSE IF parses(j)
    THEN Res("none", json_loads(return_value(j)).val, p.c,
             Append(p.sent, Req("call", p.path, "GetGameStateJSON", NoneV)))
    ELSE get_state_fallback(g, p.c, p.path,
             Append(p.sent, Req("call", p.path, "GetGameStateJSON", NoneV)))

state_call(g, p) ==
    state_result(g, p, call_function(g, p.path, "GetGameStateJSON", NoneV))

get_state(g, c) == state_call(g, get_gm_path(g, c))

\* changes that compares a missing baseline as an empty state
changes_of_empty_baseline(prev_state, current) ==
    [key \in {k \in DOMAIN current.v :
                NoneV # Get(current.v, k, NoneV) \/ prev_state # NoneV}
        |-> DictV([old |-> IF prev_state = NoneV THEN NoneV
                           ELSE Get(prev_state.v, key, NoneV),
                   new |-> Get(current.v, key, NoneV)])]

\* changes that looks at the keys of the current state only
changes_of_current_keys(prev_state, current) ==
    IF prev_state = NoneV THEN EmptyDict
    ELSE [key \in {k \in DOMAIN current.v :
                      Get(prev_state.v, k, NoneV) # Get(current.v, k, NoneV)}
            |-> DictV([old |-> Get(prev_state.v, key, NoneV),
                       new |-> Get(current.v, key, NoneV)])]

\* the changes dict of get_state_diff
changes_of(prev_state, current) ==
    IF prev_state = NoneV THEN EmptyDict
    ELSE [key \in {k \in DOMAIN current.v \cup DOMAIN prev_state.v :
                      Get(prev_state.v, k, NoneV) # Get(current.v, k, NoneV)}
            |-> DictV([old |-> Get(prev_state.v, key, NoneV),
                       new |-> Get(current.v, key, NoneV)])]

\* a diff that forgets its baseline when the state cannot be read
diff_result_forgetting(s) ==
    IF s.exc # "none" THEN [s EXCEPT !.c.prev_state = NoneV]
    ELSE Res("none",
             DictV([current |-> s.val,
                    changes |-> DictV(changes_of(s.c.prev_state, s.val))]),
             [s.c EXCEPT !.prev_state = s.val], s.sent)

\* get_state_diff once get_state has returned or raised s
diff_result(s) ==
    IF s.exc # "none" THEN s
    ELSE Res("none",
             DictV([current |-> s.val,
                    changes |-> DictV(changes_of(s.c.prev_state, s.val))]),
             [s.c EXCEPT !.prev_state = s.val], s.sent)

get_state_diff(g, c) == diff_result(get_state(g, c))

\* get_config whose except clause lets a failed request through
config_result_raising(p, j, cache) ==
    IF parses(j)
    THEN [exc |-> "none", val |-> json_loads(return_value(j)).val,
          c |-> p.c,
          sent |-> Append(p.sent,
                          Req("call", p.path, "GetGameConfigJSON", NoneV)),
          cache |-> json_loads(return_value(j)).val]
    ELSE [exc |-> j.exc, val |-> DictV(EmptyDict), c |-> p.c,
          sent |-> Append(p.sent,
                          Req("call", p.path, "GetGameConfigJSON", NoneV)),
          cache |-> cache]

\* get_config once the GameMode path p is known and GetGameConfigJSON has
\* answered j; the result carries the class-level cache afterwards too
config_result(p, j, cache) ==
    IF parses(j)
    THEN [exc |-> "none", val |-> json_loads(return_value(j)).val,
          c |-> p.c,
          sent |-> Append(p.sent,
                          Req("call", p.path, "GetGameConfigJSON", NoneV)),
          cache |-> json_loads(return_value(j)).val]
    ELSE [exc |-> "none", val |-> DictV(EmptyDict), c |-> p.c,
          sent |-> Append(p.sent,
                          Req("call", p.path, "GetGameConfigJSON", NoneV)),
          cache |-> cache]

config_call(g, p, cache) ==
    config_result(p, call_function(g, p.path, "GetGameConfigJSON", NoneV),
                  cache)

\* get_config that does not look at the cache
get_config_uncached(g, c, cache) ==
    config_call(g, get_gm_path(g, c), cache)

get_config(g, c, cache) ==
    IF cache # NoneV
    THEN [exc |-> "none", val |-> cache, c |-> c, sent |-> <<>>,
          cache |-> cache]
    ELSE config_call(g, get_gm_path(g, c), cache)

\* get_hazards whose except clause lets a rejected call through
hazards_result_raising(p, j) ==
    IF j.exc # "none"
    THEN Res(j.exc, NoneV, p.c,
             Append(p.sent, Req("call", p.path, "GetLaneHazardsJSON", NoneV)))
    ELSE IF parses(j)
    THEN Res("none",
             Get(json_loads(return_value(j)).val.v, "hazards", ListV(<<>>)),
             p.c,
             Append(p.sent, Req("call", p.path, "GetLaneHazardsJSON", NoneV)))
    ELSE Res("none", ListV(<<>>), p.c,
             Append(p.sent, Req("call", p.path, "GetLaneHazardsJSON", NoneV)))

\* get_hazards once the GameMode path p is known and GetLaneHazardsJSON
\* has answered j
hazards_result(p, j) ==
    IF j.exc \notin {"none", "CallError"}
    THEN Res(j.exc, NoneV, p.c,
             Append(p.sent, Req("call", p.path, "GetLaneHazardsJSON", NoneV)))
    ELSE IF parses(j)
    THEN Res("none",
             Get(json_loads(return_value(j)).val.v, "hazards", ListV(<<>>)),
             p.c,
             Append(p.sent, Req("call", p.path, "GetLaneHazardsJSON", NoneV)))
    ELSE Res("none", ListV(<<>>), p.c,
             Append(p.sent, Req("call", p.path, "GetLaneHazardsJSON", NoneV)))

hazards_call(g, p) ==
    hazards_result(p, call_function(g, p.path, "GetLaneHazardsJSON", NoneV))

get_hazards(g, c) == hazards_call(g, get_gm_path(g, c))

InfoReq == [ep |-> "info", path |-> NoPath, name |-> "", params |-> NoneV]

\* is_alive that lets the failed request through
alive_result_raising(c, r) ==
    Res(r.exc, BoolV(r.exc = "none"), c, <<InfoReq>>)

\* is_alive once the GET of /remote/info has answered r
alive_result(c, r) ==
    IF r.exc = "RCConnectionError" THEN Res("none", BoolV(FALSE), c, <<InfoReq>>)
    ELSE Res(r.exc, BoolV(TRUE), c, <<InfoReq>>)

is_alive(g, c) == alive_result(c, get(g, "/remote/info"))

OK == <<"O", "K">>
FAILED == <<"F", "A", "I", "L", "E", "D">>

\* "Default__" not in path
is_live(path) == ~HasDefault(path)

\* the section of the report for the object at path
object_section(path) ==
    DictV([path |-> StrV(path), is_live |-> BoolV(is_live(path))])

\* the state section for the result st of get_state
state_section(st) ==
    IF st.exc = "none"
    THEN DictV([status |-> StrV(OK), data |-> st.val])
    ELSE DictV([status |-> StrV(FAILED), error |-> StrV(<<st.exc>>)])

\* the report of a failed probe
failed_report(exc) ==
    DictV([connection |-> DictV([status |-> StrV(FAILED),
                                 error |-> StrV(<<exc>>)]),
           gamemode |-> DictV(EmptyDict),
           character |-> DictV(EmptyDict),
           state |-> DictV(EmptyDict)])

\* diagnose after the probe: gm and frog are the two discoveries, st the
\* result of get_state; a PlayUnrealError of get_state is reported
diagnose_report(gm, frog, st) ==
    IF ~IsPlayUnrealError(st.exc) /\ st.exc # "none"
    THEN Res(st.exc, NoneV, st.c,
             ((<<InfoReq>> \o gm.sent) \o frog.sent) \o st.sent)
    ELSE Res("none",
             DictV([connection |-> DictV([status |-> StrV(OK),
                                          url |-> StrV(<<"base_url">>)]),
                    gamemode |-> object_section(gm.path),
                    character |-> object_section(frog.path),
                    state |-> state_section(st)]),
             st.c, ((<<InfoReq>> \o gm.sent) \o frog.sent) \o st.sent)

diagnose_state(g, gm, frog) == diagnose_report(gm, frog, get_state(g, frog.c))

diagnose_frog(g, gm) == diagnose_state(g, gm, get_frog_path(g, gm.c))

\* diagnose that goes on after a failed probe
diagnose_probe_going_on(later, c, r) ==
    diagnose_frog(later, get_gm_path(later, c))

\* diagnose once the probe of /remote/info has answered r; later is the
\* game when the rest of diagnose runs
diagnose_probe(later, c, r) ==
    IF r.exc = "RCConnectionError"
    THEN Res("none", failed_report(r.exc), c, <<InfoReq>>)
    ELSE diagnose_frog(later, get_gm_path(later, c))

\* g is the game at the probe
diagnose(g, later, c) == diagnose_probe(later, c, get(g, "/remote/info"))

\* an argument that is None or "" leaves the name as it is
configure(c, gm_class, frog_class, module_name, map_name) ==
    [c EXCEPT
        !.gm_class = IF gm_class # "" THEN gm_class ELSE @,
        !.frog_class = IF frog_class # "" THEN frog_class ELSE @,
        !.module_name = IF module_name # "" THEN module_name ELSE @,
        !.map_name = IF map_name # "" THEN map_name ELSE @,
        !.gm_path = NoPath,
        !.frog_path = NoPath]

(***************************************************************************)
(* The state machine.  A step is one whole public call of one client, or   *)
(* one change of the game.  ret and sent describe the call of the step     *)
(* just taken; a change of the game clears them.                           *)
(***************************************************************************)
Instances == {"pu1", "pu2"}

\* __init__ with its default arguments
NewClient ==
    [map_name |-> "FroggerMain", gm_path |-> NoPath, frog_path |-> NoPath,
     prev_state |-> NoneV, gm_class |-> "UnrealFrogGameMode",
     frog_class |-> "FrogCharacter", module_name |-> "UnrealFrog"]

\* the objects of a running level
LiveIn(map_name, suffix) ==
    {LevelPath(map_name, "UnrealFrogGameMode", suffix),
     LevelPath(map_name, "FrogCharacter", suffix)}

LiveChoices ==
    {{}, LiveIn("FroggerMain", "_0"), LiveIn("TestMap", "_C_0"),
     LiveIn("FroggerMain", "_1") \cup LiveIn("TestMap", "_0")}

ConfigA == [cellSize |-> IntV(100), gridCols |-> IntV(13)]
ConfigB == [cellSize |-> IntV(50), gridCols |-> IntV(13)]
Configs == {ConfigA, ConfigB, EmptyDict}

TextForms == {"json", "garbage", "empty"}

InitGame ==
    [reachable |-> TRUE, live |-> LiveIn("FroggerMain", "_0"),
     rejects |-> {}, stateJSON |-> "json", configJSON |-> "json",
     hazardsJSON |-> "json", hazards |-> ListV(<<>>), config |-> ConfigA,
     info |-> "ok",
     score |-> IntV(0), lives |-> IntV(3), wave |-> IntV(1),
     CurrentState |-> StrV(Title), RemainingTime |-> IntV(30),
     HomeSlotsFilledCount |-> IntV(0),
     frog |-> <<6, 0>>, positionAs |-> "struct"]

Threads == {"t1", "t2"}

\* the client a thread works with
ClientOf(t) == IF t = "t1" THEN "pu1" ELSE "pu2"

\* the locals of a call in progress: where it stands (pc), the pass of
\* reset_game through its loop (attempt), the target and the polls so far
\* of its wait_for_state, the functions it has called on the GameMode and
\* the waits for Title that returned, in order (log), the value it returned
\* or the state its last wait returned (state), the config it fetched
\* (config) and the exception it ended with (exc)
IdleFrame ==
    [op |-> "none", pc |-> "idle", attempt |-> 0, target |-> <<>>,
     polls |-> 0, log |-> <<>>, state |-> NoneV,
     config |-> NoneV, exc |-> "none", caught |-> "none"]

NoCall == [op |-> "none", inst |-> "", arg |-> "", exc |-> "none",
           val |-> NoneV]

Init ==
    /\ pu = [i \in Instances |-> NewClient]
    /\ cached_config = NoneV
    /\ game = InitGame
    /\ ret = NoCall
    /\ sent = <<>>
    /\ calls = [t \in Threads |-> IdleFrame]

\* a public method of client i has run to its end with result r
Finish(i, op, arg, r) ==
    /\ pu' = [pu EXCEPT ![i] = r.c]
    /\ ret' = [op |-> op, inst |-> i, arg |-> arg, exc |-> r.exc,
               val |-> r.val]
    /\ sent' = r.sent
    /\ UNCHANGED calls

DirectionTokens == {"up", "down", "left", "right", "diagonal"}

Hop(i) ==
    \E direction \in DirectionTokens :
        /\ Finish(i, "hop", direction, hop(game, pu[i], direction))
        /\ UNCHANGED <<cached_config, game>>

GetState(i) ==
    /\ Finish(i, "get_state", "", get_state(game, pu[i]))
    /\ UNCHANGED <<cached_config, game>>

GetStateDiff(i) ==
    /\ Finish(i, "get_state_diff", "", get_state_diff(game, pu[i]))
    /\ UNCHANGED <<cached_config, game>>

\* get_config has run to its end with result r
FinishConfig(i, r) ==
    /\ Finish(i, "get_config", "", r)
    /\ cached_config' = r.cache

GetConfig(i) ==
    /\ FinishConfig(i, get_config(game, pu[i], cached_config))
    /\ UNCHANGED game

ConfigureArgs ==
    {[gm_class |-> "", frog_class |-> "", module_name |-> "",
      map_name |-> "TestMap"],
     [gm_class |-> "MyGameMode", frog_class |-> "MyCharacter",
      module_name |-> "MyGame", map_name |-> ""]}

Configure(i) ==
    \E a \in ConfigureArgs :
        /\ Finish(i, "configure", "",
                  Res("none", NoneV,
                      configure(pu[i], a.gm_class, a.frog_class,
                                a.module_name, a.map_name), <<>>))
        /\ UNCHANGED <<cached_config, game>>

GetHazards(i) ==
    /\ Finish(i, "get_hazards", "", get_hazards(game, pu[i]))
    /\ UNCHANGED <<cached_config, game>>

IsAlive(i) ==
    /\ Finish(i, "is_alive", "", is_alive(game, pu[i]))
    /\ UNCHANGED <<cached_config, game>>

\* the editor may stop between the probe of diagnose and the rest of it
Diagnose(i) ==
    \E later \in {game, [game EXCEPT !.reachable = FALSE]} :
        /\ Finish(i, "diagnose", IF later = game THEN "" ELSE "stops",
                  diagnose(game, later, pu[i]))
        /\ UNCHANGED <<cached_config, game>>

\* the game changes to g between two calls
GameBecomes(g) ==
    /\ g # game
    /\ game' = g
    /\ ret' = NoCall
    /\ sent' = <<>>
    /\ UNCHANGED <<pu, cached_config, calls>>

\* the editor is started or stopped
Connection == GameBecomes([game EXCEPT !.reachable = ~@])

\* a level is loaded or unloaded
LevelChanges ==
    \E l \in LiveChoices : GameBecomes([game EXCEPT !.live = l])

\* the ways a game build serves GetGameConfigJSON: a config as JSON, text
\* that is no JSON, an empty string, or no such function
ConfigApis ==
    {[form |-> "json", cfg |-> c, rejected |-> FALSE] : c \in Configs}
    \cup {[form |-> f, cfg |-> ConfigA, rejected |-> FALSE] :
            f \in {"garbage", "empty"}}
    \cup {[form |-> "json", cfg |-> ConfigA, rejected |-> TRUE]}

ConfigApiChanges ==
    \E a \in ConfigApis :
        GameBecomes([game EXCEPT
            !.configJSON = a.form, !.config = a.cfg,
            !.rejects = IF a.rejected THEN @ \cup {"GetGameConfigJSON"}
                        ELSE @ \ {"GetGameConfigJSON"}])

\* the ways a game build serves the game state: GetGameStateJSON returning
\* JSON, text that is no JSON or an empty string, or no such function and
\* some of the properties unreadable
StateApis ==
    {[form |-> f, rejects |-> {}] : f \in TextForms}
    \cup {[form |-> "json", rejects |-> {"GetGameStateJSON"} \cup r] :
            r \in {{}, {"CurrentWave"}, {"CurrentState"}, {"GridPosition"}}}

StateApiChanges ==
    \E a \in StateApis :
        GameBecomes([game EXCEPT
            !.stateJSON = a.form,
            !.rejects = (@ \cap {"GetGameConfigJSON"}) \cup a.rejects])

\* the ways the API answers GET /remote/info: its description, an error
\* status, or a body that is no JSON
InfoForms == {"ok", "error", "garbage"}

InfoChanges ==
    \E f \in InfoForms : GameBecomes([game EXCEPT !.info = f])

\* two hazards as GetLaneHazardsJSON reports them
Car == DictV([row |-> IntV(1), x |-> IntV(0), speed |-> IntV(1),
              width |-> IntV(2), movesRight |-> BoolV(TRUE),
              rideable |-> BoolV(FALSE)])
Log == DictV([row |-> IntV(7), x |-> IntV(3), speed |-> IntV(1),
              width |-> IntV(3), movesRight |-> BoolV(FALSE),
              rideable |-> BoolV(TRUE)])

\* the ways a game build serves the hazards: a document with a list, a
\* document without one, text that is no JSON, an empty string, or no such
\* function
HazardApis ==
    {[form |-> "json", hazards |-> h, rejected |-> FALSE] :
        h \in {ListV(<<>>), ListV(<<Car>>), ListV(<<Log, Car>>), NoneV}}
    \cup {[form |-> f, hazards |-> ListV(<<Car>>), rejected |-> FALSE] :
            f \in {"garbage", "empty"}}
    \cup {[form |-> "json", hazards |-> ListV(<<Car>>), rejected |-> TRUE]}

HazardApiChanges ==
    \E a \in HazardApis :
        GameBecomes([game EXCEPT
            !.hazardsJSON = a.form, !.hazards = a.hazards,
            !.rejects = IF a.rejected THEN {"GetLaneHazardsJSON"} ELSE {}])

\* what the running game can report as its state
StateCodes == {StrV(Title), IntV(2)}
Waves == {IntV(1), NoneV}
PositionForms == {"struct", "text"}

GameRuns ==
    \E s \in StateCodes, w \in Waves, form \in PositionForms :
        GameBecomes([game EXCEPT !.CurrentState = s, !.wave = w,
                                 !.positionAs = form])

(***************************************************************************)
(* get_config run by two threads, a step at a time: the test of the cache, *)
(* the fetch, and the assignment to the cache.                             *)
(***************************************************************************)
Over(f) == f.pc \in {"idle", "returned", "raised"}

\* if PlayUnreal._cached_config is not None: return it
ConfigCheck(t) ==
    /\ Over(calls[t])
    /\ calls' = [calls EXCEPT ![t] =
                    IF cached_config # NoneV
                    THEN [IdleFrame EXCEPT !.op = "get_config",
                                           !.pc = "returned",
                                           !.state = cached_config]
                    ELSE [IdleFrame EXCEPT !.op = "get_config",
                                           !.pc = "fetch"]]
    /\ UNCHANGED <<pu, cached_config, game, ret, sent>>

\* the frame of a get_config whose fetch has ended with r
fetched(r) ==
    IF r.cache # NoneV
    THEN [IdleFrame EXCEPT !.op = "get_config", !.pc = "store",
                           !.config = r.val]
    ELSE [IdleFrame EXCEPT !.op = "get_config", !.pc = "returned",
                           !.state = r.val]

\* a fetch of thread t has ended with r
FetchEnds(t, r) ==
    /\ pu' = [pu EXCEPT ![ClientOf(t)] = r.c]
    /\ calls' = [calls EXCEPT ![t] = fetched(r)]

\* the try block up to json.loads, run by a thread that found the cache empty
ConfigFetch(t) ==
    /\ calls[t].op = "get_config" /\ calls[t].pc = "fetch"
    /\ FetchEnds(t, get_config(game, pu[ClientOf(t)], NoneV))
    /\ UNCHANGED <<cached_config, game, ret, sent>>

\* PlayUnreal._cached_config = config; return config
ConfigStore(t) ==
    /\ calls[t].op = "get_config" /\ calls[t].pc = "store"
    /\ cached_config' = calls[t].config
    /\ calls' = [calls EXCEPT ![t] = [@ EXCEPT !.pc = "returned",
                                               !.state = calls[t].config]]
    /\ UNCHANGED <<pu, game, ret, sent>>

(***************************************************************************)
(* wait_for_state and reset_game, a request at a time.  The clock is the   *)
(* environment's: a wait can time out before any pass through its loop,    *)
(* and makes at most MaxPolls passes.                                      *)
(***************************************************************************)
MaxPolls == 2

\* for _ in range(10)
MaxAttempts == 10

\* the tests of wait_for_state with a code's name compared letter by letter
matches_current_exact_name(current, target_state) ==
    \/ /\ current.t = "str"
       /\ Contains(Lower(current.v), Lower(target_state))
    \/ /\ current.t = "int"
       /\ Get(state_map, current.v, <<>>) = target_state

\* the tests of wait_for_state with the target as the default of the table
matches_current_default_target(current, target_state) ==
    \/ /\ current.t = "str"
       /\ Contains(Lower(current.v), Lower(target_state))
    \/ /\ current.t = "int"
       /\ Lower(Get(state_map, current.v, target_state))
            = Lower(target_state)

\* the two tests of wait_for_state on current = state.get("gameState", "")
matches_current(current, target_state) ==
    \/ /\ current.t = "str"
       /\ Contains(Lower(current.v), Lower(target_state))
    \/ /\ current.t = "int"
       /\ Lower(Get(state_map, current.v, <<>>)) = Lower(target_state)

matches(state, target_state) ==
    matches_current(Get(state.v, "gameState", StrV(<<>>)), target_state)

\* how a pass through the loop of wait_for_state ends when get_state gave s
poll_outcome(s, target_state) ==
    IF s.exc # "none" THEN [kind |-> "raise", exc |-> s.exc, state |-> NoneV]
    ELSE IF matches(s.val, target_state)
    THEN [kind |-> "return", exc |-> "none", state |-> s.val]
    ELSE [kind |-> "again", exc |-> "none", state |-> NoneV]

\* raise PlayUnrealError("Timed out waiting for state ...")
timeout_outcome ==
    [kind |-> "raise", exc |-> "PlayUnrealError", state |-> NoneV]

\* the end of a pass of the for loop that does not leave it
next_attempt(f) ==
    IF f.attempt < MaxAttempts
    THEN [f EXCEPT !.pc = "rtt", !.attempt = @ + 1, !.polls = 0]
    ELSE [f EXCEPT !.pc = "start", !.polls = 0]

\* the loop of reset_game without its break
after_title_wait_no_break(f, o) ==
    IF o.kind = "return"
    THEN next_attempt([f EXCEPT !.log = Append(@, "Title")])
    ELSE IF IsPlayUnrealError(o.exc)
    THEN next_attempt([f EXCEPT !.caught = o.exc])
    ELSE [f EXCEPT !.pc = "raised", !.exc = o.exc]

\* try: self.wait_for_state("Title", timeout=4); break
\* except PlayUnrealError: time.sleep(1.0)
\* (caught is the exception the except clause caught last)
after_title_wait(f, o) ==
    IF o.kind = "return"
    THEN [f EXCEPT !.pc = "start", !.polls = 0,
                   !.log = Append(@, "Title")]
    ELSE IF IsPlayUnrealError(o.exc)
    THEN next_attempt([f EXCEPT !.caught = o.exc])
    ELSE [f EXCEPT !.pc = "raised", !.exc = o.exc]

\* a last wait whose timeout is swallowed
after_final_wait_swallowing(f, o) ==
    [f EXCEPT !.pc = "returned", !.state = o.state]

\* self.wait_for_state("Playing", timeout=15) as the last statement of
\* reset_game, and wait_for_state called on its own
after_final_wait(f, o) ==
    IF o.kind = "return"
    THEN [f EXCEPT !.pc = "returned", !.state = o.state]
    ELSE [f EXCEPT !.pc = "raised", !.exc = o.exc]

\* the frame after a pass through the loop of wait_for_state with outcome o
after_wait(f, o) ==
    IF o.kind = "again" THEN [f EXCEPT !.polls = @ + 1]
    ELSE IF f.pc = "wait_title" THEN after_title_wait(f, o)
    ELSE after_final_wait(f, o)

\* the frame after self._call_function(gm_path, name) answered r
after_call(f, name, r, pc, target_state) ==
    IF r.exc # "none"
    THEN [f EXCEPT !.pc = "raised", !.exc = r.exc,
                   !.log = Append(@, name)]
    ELSE [f EXCEPT !.pc = pc, !.target = target_state, !.polls = 0,
                   !.log = Append(@, name)]

WaitPcs == {"wait", "wait_title", "wait_playing"}

\* gm_path = self._get_gm_path()
ResetFinds(t, p) ==
    /\ pu' = [pu EXCEPT ![ClientOf(t)] = p.c]
    /\ calls' = [calls EXCEPT ![t] =
                    [IdleFrame EXCEPT !.op = "reset_game", !.pc = "rtt",
                                      !.attempt = 1]]

ResetBegin(t) ==
    /\ Over(calls[t])
    /\ ResetFinds(t, get_gm_path(game, pu[ClientOf(t)]))
    /\ UNCHANGED <<cached_config, game, ret, sent>>

\* self._call_function(gm_path, "ReturnToTitle")
ResetReturnToTitle(t) ==
    /\ calls[t].pc = "rtt"
    /\ calls' = [calls EXCEPT ![t] =
            after_call(calls[t], "ReturnToTitle",
                       call_function(game, pu[ClientOf(t)].gm_path,
                                     "ReturnToTitle", NoneV),
                       "wait_title", Title)]
    /\ UNCHANGED <<pu, cached_config, game, ret, sent>>

\* self._call_function(gm_path, "StartGame")
ResetStartGame(t) ==
    /\ calls[t].pc = "start"
    /\ calls' = [calls EXCEPT ![t] =
            after_call(calls[t], "StartGame",
                       call_function(game, pu[ClientOf(t)].gm_path,
                                     "StartGame", NoneV),
                       "wait_playing", Playing)]
    /\ UNCHANGED <<pu, cached_config, game, ret, sent>>

\* the targets wait_for_state is called with on its own
Targets == {Title, Playing, <<"p", "l", "a", "y", "i", "n", "g">>,
            <<"P", "l", "a", "y">>}

WaitBegin(t) ==
    /\ Over(calls[t])
    /\ \E target_state \in Targets :
        calls' = [calls EXCEPT ![t] =
                    [IdleFrame EXCEPT !.op = "wait_for_state", !.pc = "wait",
                                      !.target = target_state]]
    /\ UNCHANGED <<pu, cached_config, game, ret, sent>>

\* get_state in the loop of wait_for_state has ended with s
Polled(t, s) ==
    /\ pu' = [pu EXCEPT ![ClientOf(t)] = s.c]
    /\ calls' = [calls EXCEPT ![t] =
                    after_wait(calls[t], poll_outcome(s, calls[t].target))]

\* one pass through the loop of wait_for_state
WaitPoll(t) ==
    /\ calls[t].pc \in WaitPcs
    /\ calls[t].polls < MaxPolls
    /\ Polled(t, get_state(game, pu[ClientOf(t)]))
    /\ UNCHANGED <<cached_config, game, ret, sent>>

\* time.time() - start < timeout is false
WaitTimeout(t) ==
    /\ calls[t].pc \in WaitPcs
    /\ calls' = [calls EXCEPT ![t] = after_wait(calls[t], timeout_outcome)]
    /\ UNCHANGED <<pu, cached_config, game, ret, sent>>

\* what the game reports as its state while it is being reset: the name of
\* the state, the name with the enum's scope, or the enum's number
ScopedPlaying == <<"E", ":", ":">> \o Playing
ResetStates ==
    {StrV(Title), StrV(ScopedPlaying), StrV(Paused),
     IntV(0), IntV(2), IntV(7)}

GameMoves ==
    \E s \in ResetStates : GameBecomes([game EXCEPT !.CurrentState = s])

\* the functions a game build lacks
ResetApis == {{}, {"ReturnToTitle"}, {"StartGame"}, {"GetGameStateJSON"}}

ResetApiChanges ==
    \E r \in ResetApis : GameBecomes([game EXCEPT !.rejects = r])

(***************************************************************************)
(* The path planner (path_planner, imported by navigate).  Positions and   *)
(* widths are in cells, times in hop durations.  A hazard is a record      *)
(* x, speed, width, movesRight.                                            *)
(***************************************************************************)
HopDuration == 1

direction(hazard) == IF hazard.movesRight THEN 1 ELSE -1

\* linear extrapolation of the hazard's position
predict_position(hazard, dt) ==
    hazard.x + (direction(hazard) * hazard.speed) * dt

\* the hazard's span [x', x' + width) at dt overlaps the cell of column
occupies(hazard, column, dt) ==
    /\ predict_position(hazard, dt) < column + 1
    /\ column < predict_position(hazard, dt) + hazard.width

\* no hazard of the row occupies column at time dt
is_column_safe(hazards, column, dt) ==
    \A k \in 1..Len(hazards) : ~occupies(hazards[k], column, dt)

\* the column is safe when a hop starts after waiting w and when it lands
safe_for_hop(hazards, column, w) ==
    /\ is_column_safe(hazards, column, w)
    /\ is_column_safe(hazards, column, w + HopDuration)

\* a search that looks at the instant the hop starts only
min_wait_start_only(hazards, column, max_wait) ==
    first_of({w \in 0..max_wait : is_column_safe(hazards, column, w)},
             max_wait)

\* the minimal wait in 0..max_wait after which column is safe for a hop,
\* max_wait + 1 when there is none
min_wait(hazards, column, max_wait) ==
    first_of({w \in 0..max_wait : safe_for_hop(hazards, column, w)},
             max_wait)

Abs(n) == IF n < 0 THEN -n ELSE n

\* a is a better candidate than b, or as good: smaller wait, then fewer
\* lateral hops from the current column, then closer to the target
\* column, then the lower column
Prefer(wa, a, wb, b, current_col, target_col) ==
    \/ wa < wb
    \/ /\ wa = wb
       /\ \/ Abs(a - current_col) < Abs(b - current_col)
          \/ /\ Abs(a - current_col) = Abs(b - current_col)
             /\ \/ Abs(a - target_col) < Abs(b - target_col)
                \/ /\ Abs(a - target_col) = Abs(b - target_col)
                   /\ a <= b

NoColumn == [found |-> FALSE, col |-> 0, wait |-> 0]

\* the search once the minimal wait of every column is known (waits)
best_column(waits, current_col, target_col, max_wait) ==
    IF \A c \in DOMAIN waits : waits[c] > max_wait THEN NoColumn
    ELSE [found |-> TRUE,
          col |-> CHOOSE a \in DOMAIN waits :
                    /\ waits[a] <= max_wait
                    /\ \A b \in DOMAIN waits :
                         waits[b] <= max_wait
                            => Prefer(waits[a], a, waits[b], b,
                                      current_col, target_col),
          wait |-> CHOOSE w \in 0..max_wait :
                    /\ \E a \in DOMAIN waits : waits[a] = w
                    /\ \A b \in DOMAIN waits : waits[b] >= w]

\* grid_cols is GridConfig's gridCols
find_safe_column(hazards, current_col, target_col, max_wait, grid_cols) ==
    best_column([c \in 0..(grid_cols - 1) |->
                    min_wait(hazards, c, max_wait)],
                current_col, target_col, max_wait)

(***************************************************************************)
(* find_safe_column applied to the hazards of one row.                     *)
(***************************************************************************)
SearchCols == 3
MaxSearchWait == 2

HazardPool ==
    [x : {0, 3}, speed : {0, 1}, width : {1, 2}, movesRight : BOOLEAN]

HazardRows ==
    {<<>>} \cup {<<h>> : h \in HazardPool}
    \cup {<<h, k>> : h \in HazardPool, k \in HazardPool}

\* the frame of a search that has been called and has not run yet
SearchFrames ==
    [op : {"find_safe_column"}, pc : {"called"}, hazards : HazardRows,
     current_col : 0..(SearchCols - 1), target_col : 0..(SearchCols - 1),
     max_wait : 0..MaxSearchWait, result : {NoColumn}]

InitSearch ==
    /\ pu = [i \in Instances |-> NewClient]
    /\ cached_config = NoneV
    /\ game = InitGame
    /\ ret = NoCall
    /\ sent = <<>>
    /\ \E f \in SearchFrames :
        calls = [t \in Threads |-> IF t = "t1" THEN f ELSE IdleFrame]

Search(t) ==
    /\ calls[t].op = "find_safe_column" /\ calls[t].pc = "called"
    /\ calls' = [calls EXCEPT ![t] =
            [@ EXCEPT !.pc = "returned",
                      !.result = find_safe_column(
                          calls[t].hazards, calls[t].current_col,
                          calls[t].target_col, calls[t].max_wait,
                          SearchCols)]]
    /\ UNCHANGED <<pu, cached_config, game, ret, sent>>

NextSearch == Search("t1")

SpecSearch == InitSearch /\ [][NextSearch]_vars

(***************************************************************************)
(* navigate_to_home_slot: the loop Planning, Acting, Observing, a request  *)
(* of the actuator at a time.  The frog, the lives, the home slots and the *)
(* traffic change between the steps.                                       *)
(***************************************************************************)
HopCeiling == 2
HomeRow == 2
DefaultGridCols == 13

\* the hazard record of a hazard dict of get_hazards
hazard_of(d) ==
    [x |-> d.v.x.v, speed |-> d.v.speed.v, width |-> d.v.width.v,
     movesRight |-> d.v.movesRight.v = 1]

\* the collision hazards of the row among the hazard dicts hv, in order
road_hazards_on_row(hv, row) ==
    LET idx == {k \in 1..Len(hv) :
                    hv[k].v.row.v = row /\ hv[k].v.rideable.v = 0}
    IN  [j \in 1..Cardinality(idx) |->
            hazard_of(hv[CHOOSE k \in idx :
                            Cardinality({i \in idx : i <= k}) = j])]

\* a selector that hops forward when the search finds no column
action_for_forcing(search, col) ==
    IF ~search.found THEN "up"
    ELSE IF search.col < col THEN "left"
    ELSE IF search.col > col THEN "right"
    ELSE IF search.wait = 0 THEN "up"
    ELSE "wait"

\* ColumnSelector: the move for the column the search returned
action_for(search, col) ==
    IF ~search.found THEN "wait"
    ELSE IF search.col < col THEN "left"
    ELSE IF search.col > col THEN "right"
    ELSE IF search.wait = 0 THEN "up"
    ELSE "wait"

\* a controller that counts the lives lost
observe_lives_lost(f, st) ==
    [f EXCEPT !.deaths = IF Get(st.v, "lives", IntV(f.lives)).v < f.lives
                         THEN @ + f.lives
                                - Get(st.v, "lives", IntV(f.lives)).v
                         ELSE @,
              !.lives = Get(st.v, "lives", IntV(f.lives)).v]

\* Observing: the frame f with the state dict st compared to the life
\* count of the last observation; a lower life count is one death
observe(f, st) ==
    [f EXCEPT !.deaths = IF Get(st.v, "lives", IntV(f.lives)).v < f.lives
                         THEN @ + 1 ELSE @,
              !.lives = Get(st.v, "lives", IntV(f.lives)).v]

\* the goal is reached in the state dict st
goal_reached(f, st) ==
    \/ Get(st.v, "homeSlotsFilledCount", IntV(f.filled)).v > f.filled
    \/ Get(st.v, "frogPos", Zero2) =
            ListV(<<IntV(f.target_col), IntV(HomeRow)>>)

NavFrame ==
    [op |-> "navigate", pc |-> "planning", target_col |-> 0,
     max_deaths |-> 0, grid_cols |-> DefaultGridCols, total_hops |-> 0,
     deaths |-> 0, stalls |-> 0, ticks |-> 0, lives |-> 0, filled |-> 0,
     col |-> 0, action |-> "none", search |-> NoColumn, sampled |-> FALSE,
     success |-> FALSE, exc |-> "none", state |-> NoneV]

\* the run ends with the exception exc of the actuator
nav_raised(f, exc) ==
    [f EXCEPT !.pc = "raised", !.exc = exc, !.action = "none",
              !.search = NoColumn]

\* the NavigationResult
nav_returned(f, success, st) ==
    [f EXCEPT !.pc = "returned", !.success = success, !.state = st,
              !.action = "none", !.search = NoColumn]

\* the start of a run: the constants cfg of get_config and the first
\* state st
nav_begin(target_col, max_deaths, cfg, st) ==
    IF st.exc # "none" THEN nav_raised(NavFrame, st.exc)
    ELSE [NavFrame EXCEPT
            !.target_col = target_col, !.max_deaths = max_deaths,
            !.grid_cols = Get(cfg.val.v, "gridCols",
                              IntV(DefaultGridCols)).v,
            !.lives = Get(st.val.v, "lives", IntV(0)).v,
            !.filled = Get(st.val.v, "homeSlotsFilledCount", IntV(0)).v]

\* a controller whose ceiling bounds the hops only
budget_left_hops_only(f) ==
    f.deaths <= f.max_deaths /\ f.total_hops < HopCeiling

\* the death budget is not exceeded and the ceiling of hops and idle
\* ticks is not reached
budget_left(f) ==
    f.deaths <= f.max_deaths /\ f.total_hops + f.stalls < HopCeiling

\* the move for the search, from the column of frogPos
planned_move(f, col, search) ==
    [f EXCEPT !.pc = "acting", !.sampled = TRUE, !.col = col,
              !.search = search, !.action = action_for(search, col)]

\* Planning with the fresh state st and hazards hz
planned(f, st, hz) ==
    IF st.exc # "none" THEN nav_raised(f, st.exc)
    ELSE IF hz.exc # "none" THEN nav_raised(f, hz.exc)
    ELSE planned_move(
            f,
            Get(st.val.v, "frogPos", Zero2).v[1].v,
            find_safe_column(
                road_hazards_on_row(hz.val.v,
                    Get(st.val.v, "frogPos", Zero2).v[2].v + 1),
                Get(st.val.v, "frogPos", Zero2).v[1].v,
                f.target_col, MaxSearchWait, f.grid_cols))

\* a controller that hops again before it observes
acted_again(f, r) ==
    IF r.exc # "none" THEN nav_raised(f, r.exc)
    ELSE [f EXCEPT !.pc = "acting", !.total_hops = @ + 1,
                   !.sampled = FALSE]

\* Acting: the hop has answered r
acted(f, r) ==
    IF r.exc # "none" THEN nav_raised(f, r.exc)
    ELSE [f EXCEPT !.pc = "observing", !.total_hops = @ + 1,
                   !.sampled = FALSE]

\* a controller that reports a reached goal only
classified_hiding_failure(f, g, st) ==
    IF goal_reached(f, st) \/ ~budget_left(g)
    THEN nav_returned(g, TRUE, st)
    ELSE [g EXCEPT !.pc = "planning", !.action = "none",
                   !.search = NoColumn]

\* Observing, second half: f is the frame before the reading, g the frame
\* with the reading st counted
classified(f, g, st) ==
    IF goal_reached(f, st) THEN nav_returned(g, TRUE, st)
    ELSE IF ~budget_left(g) THEN nav_returned(g, FALSE, st)
    ELSE [g EXCEPT !.pc = "planning", !.action = "none",
                   !.search = NoColumn]

\* the tick is counted; a wait that saw no death counts as a stall
counted(f, g) ==
    [g EXCEPT !.ticks = @ + 1,
              !.stalls = IF f.action = "wait" /\ g.deaths = f.deaths
                         THEN @ + 1 ELSE @]

\* Observing with the state st re-read
observed(f, st) ==
    IF st.exc # "none" THEN nav_raised(f, st.exc)
    ELSE classified(f, counted(f, observe(f, st.val)), st.val)

NavTargets == {1}
MaxDeathsChoices == {0, 1}

\* navigate(target_col, max_deaths): get_config, then the first get_state
NavStarts(t, cfg, st, target_col, max_deaths) ==
    /\ pu' = [pu EXCEPT ![ClientOf(t)] = st.c]
    /\ cached_config' = cfg.cache
    /\ sent' = cfg.sent \o st.sent
    /\ calls' = [calls EXCEPT ![t] =
                    nav_begin(target_col, max_deaths, cfg, st)]

NavConfigured(t, cfg, target_col, max_deaths) ==
    NavStarts(t, cfg, get_state(game, cfg.c), target_col, max_deaths)

NavBegin(t) ==
    /\ Over(calls[t])
    /\ \E target_col \in NavTargets, max_deaths \in MaxDeathsChoices :
        NavConfigured(t, get_config(game, pu[ClientOf(t)], cached_config),
                      target_col, max_deaths)
    /\ UNCHANGED <<game, ret>>

NavPlanned(t, st, hz) ==
    /\ pu' = [pu EXCEPT ![ClientOf(t)] = hz.c]
    /\ sent' = st.sent \o hz.sent
    /\ calls' = [calls EXCEPT ![t] = planned(calls[t], st, hz)]

NavRead(t, st) == NavPlanned(t, st, get_hazards(game, st.c))

NavPlan(t) ==
    /\ calls[t].op = "navigate" /\ calls[t].pc = "planning"
    /\ NavRead(t, get_state(game, pu[ClientOf(t)]))
    /\ UNCHANGED <<cached_config, game, ret>>

NavActed(t, r) ==
    /\ pu' = [pu EXCEPT ![ClientOf(t)] = r.c]
    /\ sent' = r.sent
    /\ calls' = [calls EXCEPT ![t] = acted(calls[t], r)]

NavHop(t) ==
    /\ calls[t].op = "navigate" /\ calls[t].pc = "acting"
    /\ calls[t].action # "wait"
    /\ NavActed(t, hop(game, pu[ClientOf(t)], calls[t].action))
    /\ UNCHANGED <<cached_config, game, ret>>

\* on wait, sleep a short fixed interval instead
NavWait(t) ==
    /\ calls[t].op = "navigate" /\ calls[t].pc = "acting"
    /\ calls[t].action = "wait"
    /\ calls' = [calls EXCEPT ![t] = [@ EXCEPT !.pc = "observing"]]
    /\ sent' = <<>>
    /\ UNCHANGED <<pu, cached_config, game, ret>>

NavObserved(t, st) ==
    /\ pu' = [pu EXCEPT ![ClientOf(t)] = st.c]
    /\ sent' = st.sent
    /\ calls' = [calls EXCEPT ![t] = observed(calls[t], st)]

NavObserve(t) ==
    /\ calls[t].op = "navigate" /\ calls[t].pc = "observing"
    /\ NavObserved(t, get_state(game, pu[ClientOf(t)]))
    /\ UNCHANGED <<cached_config, game, ret>>

\* the game of a navigation run: a grid of three columns, the frog below
\* a road row, the home row above it
NavConfig == [cellSize |-> IntV(1), gridCols |-> IntV(3)]
Truck == DictV([row |-> IntV(1), x |-> IntV(0), speed |-> IntV(0),
                width |-> IntV(3), movesRight |-> BoolV(TRUE),
                rideable |-> BoolV(FALSE)])
Traffic == {ListV(<<>>), ListV(<<Car>>), ListV(<<Truck, Log>>)}
FrogCells == {<<1, 0>>, <<0, 1>>, <<1, 2>>}

NavGame ==
    [InitGame EXCEPT !.config = NavConfig, !.frog = <<1, 0>>,
                     !.lives = IntV(2), !.CurrentState = StrV(Playing)]

InitNav ==
    /\ pu = [i \in Instances |-> NewClient]
    /\ cached_config = NoneV
    /\ game = NavGame
    /\ ret = NoCall
    /\ sent = <<>>
    /\ calls = [t \in Threads |-> IdleFrame]

FrogMoves == \E cell \in FrogCells : GameBecomes([game EXCEPT !.frog = cell])

FrogDies ==
    /\ game.lives.v > 0
    /\ GameBecomes([game EXCEPT !.lives = IntV(@.v - 1),
                                   !.frog = <<1, 0>>])

SlotFills ==
    /\ game.HomeSlotsFilledCount.v = 0
    /\ GameBecomes([game EXCEPT !.HomeSlotsFilledCount = IntV(1),
                                   !.frog = <<1, 0>>])

TrafficMoves ==
    \E h \in Traffic : GameBecomes([game EXCEPT !.hazards = h])

EditorStops ==
    /\ game.reachable
    /\ GameBecomes([game EXCEPT !.reachable = FALSE])

NavStep ==
    \/ NavPlan("t1")
    \/ NavHop("t1")
    \/ NavWait("t1")
    \/ NavObserve("t1")

NextNav ==
    \/ NavBegin("t1")
    \/ NavStep
    \/ FrogMoves
    \/ FrogDies
    \/ SlotFills
    \/ TrafficMoves
    \/ EditorStops

SpecNav == InitNav /\ [][NextNav]_vars

\* one client: hops and reconfiguration against a game that comes and goes
Next ==
    \/ Hop("pu1")
    \/ Configure("pu1")
    \/ GetConfig("pu1")
    \/ Connection
    \/ LevelChanges

Spec == Init /\ [][Next]_vars

\* two clients sharing the class-level config cache
NextConfig ==
    \/ \E i \in Instances : GetConfig(i)
    \/ \E i \in Instances : Configure(i)
    \/ Connection
    \/ ConfigApiChanges

SpecConfig == Init /\ [][NextConfig]_vars

\* one client reading the state of a running game
NextState ==
    \/ GetState("pu1")
    \/ GetStateDiff("pu1")
    \/ Connection
    \/ StateApiChanges
    \/ GameRuns

SpecState == Init /\ [][NextState]_vars

\* two threads calling get_config, each on its own client
NextConc ==
    \/ \E t \in Threads : ConfigCheck(t)
    \/ \E t \in Threads : ConfigFetch(t)
    \/ \E t \in Threads : ConfigStore(t)
    \/ Connection
    \/ ConfigApiChanges

SpecConc == Init /\ [][NextConc]_vars

\* one client: hazards, liveness and diagnosis
NextProbe ==
    \/ GetHazards("pu1")
    \/ IsAlive("pu1")
    \/ Diagnose("pu1")
    \/ GetState("pu1")
    \/ Connection
    \/ LevelChanges
    \/ InfoChanges
    \/ HazardApiChanges

SpecProbe == Init /\ [][NextProbe]_vars

\* one thread resetting the game and waiting for states
NextReset ==
    \/ ResetBegin("t1")
    \/ ResetReturnToTitle("t1")
    \/ ResetStartGame("t1")
    \/ WaitBegin("t1")
    \/ WaitPoll("t1")
    \/ WaitTimeout("t1")
    \/ Connection
    \/ GameMoves
    \/ ResetApiChanges

SpecReset == Init /\ [][NextReset]_vars

\* one client using the whole public API against a game whose level,
\* state and connection change
NextClient ==
    \/ Hop("pu1")
    \/ GetState("pu1")
    \/ GetStateDiff("pu1")
    \/ GetHazards("pu1")
    \/ Configure("pu1")
    \/ Connection
    \/ LevelChanges
    \/ GameRuns

SpecClient == Init /\ [][NextClient]_vars

\* the game goes from the title screen into play and back
GameFlips ==
    \E s \in StateCodes : GameBecomes([game EXCEPT !.CurrentState = s])

\* one thread taking diffs between its other calls, reset_game with its
\* calls of wait_for_state among them
\* a call of the thread that runs reset_game: it is made when the reset
\* is over
Between(t) == Over(calls[t])

NextBaseline ==
    \/ Between("t1") /\ GetStateDiff("pu1")
    \/ Between("t1") /\ GetState("pu1")
    \/ Between("t1") /\ Hop("pu1")
    \/ Between("t1") /\ Configure("pu1")
    \/ ResetBegin("t1")
    \/ ResetReturnToTitle("t1")
    \/ ResetStartGame("t1")
    \/ WaitPoll("t1")
    \/ WaitTimeout("t1")
    \/ Connection
    \/ GameFlips

SpecBaseline == Init /\ [][NextBaseline]_vars

(***************************************************************************)
(* Claims.                                                                 *)
(***************************************************************************)

\* C1: hop with a direction token outside up, down, left, right raises
\* ValueError before anything else happens: it sends no request (so runs no
\* discovery) and leaves the client's fields, cached paths included, and
\* the config cache as they were.
C1_InvalidHopFailsFirst ==
    [][(ret'.op = "hop" /\ ret'.arg \notin {"up", "down", "left", "right"})
        => /\ ret'.exc = "ValueError"
           /\ sent' = <<>>
           /\ pu' = pu
           /\ cached_config' = cached_config]_vars

\* an invalid hop on a client that has no frog path yet, with the game up:
\* discovery would have found and cached the live frog
C1_Witness ==
    /\ ret.op = "hop" /\ ret.arg = "diagonal" /\ ret.exc = "ValueError"
    /\ game.reachable /\ game.live # {}
    /\ pu["pu1"].frog_path = NoPath

\* C2: the config cache is written once.  Once it holds a config, every
\* get_config call, on either client and also after configure(), returns
\* that config without a remote call, and no step changes the cache.
C2_CacheWrittenOnce ==
    [][cached_config # NoneV
        => /\ cached_config' = cached_config
           /\ ret'.op = "get_config"
                => /\ ret'.exc = "none"
                   /\ ret'.val = cached_config
                   /\ sent' = <<>>]_vars

\* the second client, reconfigured and without a GameMode path, is served
\* from the cache while the game now reports another config
C2_Witness ==
    /\ ret.op = "get_config" /\ ret.inst = "pu2" /\ sent = <<>>
    /\ cached_config # NoneV /\ ret.val = cached_config
    /\ pu["pu2"].map_name = "TestMap" /\ pu["pu2"].gm_path = NoPath
    /\ pu["pu1"].gm_path # NoPath
    /\ game.reachable /\ game.configJSON = "json"
    /\ "GetGameConfigJSON" \notin game.rejects
    /\ DictV(game.config) # cached_config

\* the config fetch cannot succeed against the game g
FetchFails(g) ==
    \/ ~g.reachable
    \/ "GetGameConfigJSON" \in g.rejects
    \/ g.configJSON \in {"garbage", "empty"}

\* C3: a get_config call that finds the cache empty attempts the fetch, and
\* when the fetch fails (call rejected, game unreachable, returned value
\* empty or no JSON) it does not raise, returns an empty dict and leaves
\* the cache empty, so that the next call attempts the fetch again.
C3_FailedFetchReturnsEmpty ==
    [][(ret'.op = "get_config" /\ cached_config = NoneV)
        => /\ sent' # <<>>
           /\ sent'[Len(sent')].name = "GetGameConfigJSON"
           /\ FetchFails(game)
                => /\ ret'.exc = "none"
                   /\ ret'.val = DictV(EmptyDict)
                   /\ cached_config' = NoneV]_vars

\* a fetch against the unreachable game: every request failed, the call
\* returned {} and the cache is still empty
C3_Witness ==
    /\ ret.op = "get_config" /\ ret.exc = "none"
    /\ ret.val = DictV(EmptyDict)
    /\ ~game.reachable
    /\ Len(sent) > 1
    /\ cached_config = NoneV

\* the keys the docstring of get_state promises
StateKeys ==
    {"score", "lives", "wave", "frogPos", "gameState", "timeRemaining",
     "homeSlotsFilledCount"}

\* C5: every dict returned by get_state has the keys gameState, lives,
\* frogPos, homeSlotsFilledCount, score, wave and timeRemaining, whichever
\* path produced it.
C5_StateHasAllKeys ==
    (ret.op = "get_state" /\ ret.exc = "none")
        => StateKeys \subseteq DOMAIN ret.val.v

\* C9: the first successful get_state_diff of a client (no baseline yet)
\* returns empty changes with the full current state, and that state is
\* the baseline afterwards.
C9_FirstDiffIsEmpty ==
    [][\A i \in Instances :
        (ret'.op = "get_state_diff" /\ ret'.inst = i /\ ret'.exc = "none"
         /\ pu[i].prev_state = NoneV)
        => /\ ret'.val.v.changes = DictV(EmptyDict)
           /\ ret'.val.v.current = get_state(game, pu[i]).val
           /\ pu'[i].prev_state = ret'.val.v.current]_vars

\* a first diff that returned the seven-key state of the single-call path
C9_Witness ==
    /\ ret.op = "get_state_diff" /\ ret.exc = "none"
    /\ ret.val.v.changes = DictV(EmptyDict)
    /\ DOMAIN ret.val.v.current.v = StateKeys
    /\ pu["pu1"].prev_state = ret.val.v.current
    /\ Len(sent) = 2

\* the keys that differ between the states old and new, a key present in
\* only one of them included
DifferingKeys(old, new) ==
    {k \in DOMAIN old \cup DOMAIN new :
        \/ k \notin DOMAIN old
        \/ k \notin DOMAIN new
        \/ old[k] # new[k]}

\* the keys whose value read with dict.get differs: an absent key reads as
\* None, so a key present in one state only differs unless it holds None
GetDifferingKeys(old, new) ==
    {k \in DOMAIN old \cup DOMAIN new :
        Get(old, k, NoneV) # Get(new, k, NoneV)}

\* changes maps exactly the keys in keys to their old and new value
IsDiff(changes, keys, old, new) ==
    /\ DOMAIN changes = keys
    /\ \A k \in keys :
        changes[k] = DictV([old |-> Get(old, k, NoneV),
                            new |-> Get(new, k, NoneV)])

\* C10 as claimed: after the first call, changes holds exactly the keys
\* that differ between the previous diff's state and the current one, keys
\* present in only one of the two included, and the current state becomes
\* the baseline.
C10_DiffIsExact ==
    [][\A i \in Instances :
        (ret'.op = "get_state_diff" /\ ret'.inst = i /\ ret'.exc = "none"
         /\ pu[i].prev_state # NoneV)
        => /\ IsDiff(ret'.val.v.changes.v,
                     DifferingKeys(pu[i].prev_state.v, ret'.val.v.current.v),
                     pu[i].prev_state.v, ret'.val.v.current.v)
           /\ pu'[i].prev_state = ret'.val.v.current]_vars

\* C10 amended: after the first call, changes holds exactly the keys whose
\* value read with dict.get differs between the previous diff's state and
\* the current one, so a key present in only one of the two states is
\* reported unless its value there is None; each is mapped to its old and
\* new value, unchanged keys never appear, and the current state becomes
\* the baseline.
C10_DiffIsExactUpToNone ==
    [][\A i \in Instances :
        (ret'.op = "get_state_diff" /\ ret'.inst = i /\ ret'.exc = "none"
         /\ pu[i].prev_state # NoneV)
        => /\ IsDiff(ret'.val.v.changes.v,
                     GetDifferingKeys(pu[i].prev_state.v,
                                      ret'.val.v.current.v),
                     pu[i].prev_state.v, ret'.val.v.current.v)
           /\ ret'.val.v.current = get_state(game, pu[i]).val
           /\ pu'[i].prev_state = ret'.val.v.current]_vars

\* a diff that reports a key the current state no longer has, beside a key
\* both states have
C10_Witness ==
    /\ ret.op = "get_state_diff" /\ ret.exc = "none"
    /\ \E k \in DOMAIN ret.val.v.changes.v :
        /\ k \notin DOMAIN ret.val.v.current.v
        /\ ret.val.v.changes.v[k].v.old # NoneV
        /\ ret.val.v.changes.v[k].v.new = NoneV
    /\ \E k \in DOMAIN ret.val.v.changes.v : k \in DOMAIN ret.val.v.current.v
    /\ pu["pu1"].prev_state = ret.val.v.current

\* a get_config call of thread t has returned
Returned(f) == f.op = "get_config" /\ f.pc = "returned"

\* C4: cache population is idempotent under every interleaving of
\* concurrent get_config calls: the cache never holds a value different
\* from the first one written, and once a call has returned a non-empty
\* config no call returns a different one.
C4_PopulationIsIdempotent ==
    [][/\ cached_config # NoneV => cached_config' = cached_config
       /\ \A t, u \in Threads :
            (/\ Returned(calls[t]) /\ Truthy(calls[t].state)
             /\ ~Returned(calls[u]) /\ Returned(calls'[u]))
            => calls'[u].state = calls[t].state]_vars

\* the table of state names C8 gives, code 0 first
StateNames ==
    <<Title, Spawning, Playing, Paused, Dying, RoundComplete, GameOver>>

SameIgnoringCase(a, b) ==
    /\ Len(a) = Len(b)
    /\ \A k \in 1..Len(a) : LowerChar(a[k]) = LowerChar(b[k])

\* gameState value v matches the target: a string containing it whatever
\* the case of the letters, or the code of the state it names
MatchesTarget(v, target) ==
    \/ /\ v.t = "str"
       /\ \E k \in 1..(Len(v.v) - Len(target) + 1) :
            SameIgnoringCase(SubSeq(v.v, k, k + Len(target) - 1), target)
    \/ /\ v.t = "int"
       /\ v.v + 1 \in DOMAIN StateNames
       /\ SameIgnoringCase(StateNames[v.v + 1], target)

\* the gameState of a state dict
GameStateOf(state) ==
    IF state.t = "dict" /\ "gameState" \in DOMAIN state.v
    THEN state.v.gameState
    ELSE NoneV

\* how often name occurs in log
Count(log, name) == Cardinality({k \in 1..Len(log) : log[k] = name})

\* C6: whenever reset_game returns normally the last state it observed had
\* gameState Playing, and when it does not return it has raised a
\* PlayUnrealError: a final wait that does not see Playing never returns.
C6_ResetEndsInPlaying ==
    calls["t1"].op = "reset_game"
        => /\ calls["t1"].pc = "returned"
                => MatchesTarget(GameStateOf(calls["t1"].state), Playing)
           /\ calls["t1"].pc = "raised"
                => IsPlayUnrealError(calls["t1"].exc)
           /\ calls["t1"].pc \in {"rtt", "wait_title", "start",
                                  "wait_playing", "returned", "raised"}

\* a reset that needed a second ReturnToTitle and returned on the code 2
C6_Witness ==
    /\ calls["t1"].op = "reset_game" /\ calls["t1"].pc = "returned"
    /\ calls["t1"].attempt > 1
    /\ GameStateOf(calls["t1"].state) = IntV(2)

\* C7: one reset_game issues at least 1 and at most 10 ReturnToTitle
\* requests, none after a wait for Title has returned, at most one
\* StartGame request, and StartGame only after its last ReturnToTitle.
C7_ResetLoopBoundedAndOrdered ==
    calls["t1"].op = "reset_game"
        => /\ Count(calls["t1"].log, "ReturnToTitle") <= 10
           /\ Over(calls["t1"])
                => Count(calls["t1"].log, "ReturnToTitle") >= 1
           /\ Count(calls["t1"].log, "StartGame") <= 1
           /\ \A j, k \in 1..Len(calls["t1"].log) :
                (j < k /\ calls["t1"].log[k] = "ReturnToTitle")
                    => calls["t1"].log[j] \notin {"Title", "StartGame"}

\* a reset that issued ten ReturnToTitle requests, none confirmed, and
\* then StartGame
C7_Witness ==
    /\ calls["t1"].op = "reset_game" /\ Over(calls["t1"])
    /\ Count(calls["t1"].log, "ReturnToTitle") = 10
    /\ Count(calls["t1"].log, "Title") = 0
    /\ calls["t1"].log[Len(calls["t1"].log)] = "StartGame"

LatestHazards(g) ==
    IF \/ "GetLaneHazardsJSON" \in g.rejects
       \/ g.hazardsJSON # "json"
       \/ g.hazards = NoneV
    THEN ListV(<<>>)
    ELSE g.hazards

\* C11: every get_hazards call issues a fresh GetLaneHazardsJSON request
\* and keeps nothing in the client but the discovered GameMode path; when
\* the game answers, it returns the list under 'hazards' of the payload
\* the game serves at that moment, or an empty list when the call is
\* rejected or the returned value is empty or no JSON.
C11_HazardsAreFresh ==
    [][\A i \in Instances :
        (ret'.op = "get_hazards" /\ ret'.inst = i)
        => /\ sent' # <<>>
           /\ sent'[Len(sent')].name = "GetLaneHazardsJSON"
           /\ [pu'[i] EXCEPT !.gm_path = pu[i].gm_path] = pu[i]
           /\ cached_config' = cached_config
           /\ game.reachable
                => /\ ret'.exc = "none"
                   /\ ret'.val = LatestHazards(game)]_vars

\* a call on a client that knows its GameMode path sends the one request
\* and returns the two hazards the game reports now
C11_Witness ==
    /\ ret.op = "get_hazards" /\ ret.exc = "none"
    /\ Len(sent) = 1
    /\ ret.val = ListV(<<Log, Car>>)

\* C12: is_alive never raises; it returns True when the API answers the
\* /remote/info request, False when the API cannot be reached (or answers
\* with an error status), and changes nothing in the client or the cache.
C12_IsAliveNeverRaises ==
    [][ret'.op = "is_alive"
        => /\ ret'.exc = "none"
           /\ ret'.val = BoolV(game.reachable /\ game.info # "error")
           /\ sent' = <<InfoReq>>
           /\ pu' = pu
           /\ cached_config' = cached_config]_vars

\* False from a client that holds a GameMode path, with the editor stopped
C12_Witness ==
    /\ ret.op = "is_alive" /\ ret.val = BoolV(FALSE)
    /\ ~game.reachable
    /\ pu["pu1"].gm_path # NoPath

\* the /remote/info probe succeeds against the game g
ProbeSucceeds(g) == g.reachable /\ g.info # "error"

\* C13: diagnose returns a report and raises no PlayUnrealError; the
\* report's connection status is OK exactly when the /remote/info probe
\* succeeds, and when the probe fails the status is FAILED, the gamemode,
\* character and state sections are empty and no further request is sent.
C13_DiagnoseReports ==
    [][ret'.op = "diagnose"
        => /\ ret'.exc = "none"
           /\ ret'.val.v.connection.v.status = StrV(OK) <=> ProbeSucceeds(game)
           /\ ~ProbeSucceeds(game)
                => /\ ret'.val.v.connection.v.status = StrV(FAILED)
                   /\ ret'.val.v.gamemode = DictV(EmptyDict)
                   /\ ret'.val.v.character = DictV(EmptyDict)
                   /\ ret'.val.v.state = DictV(EmptyDict)
                   /\ sent' = <<InfoReq>>
                   /\ pu' = pu]_vars

\* the editor stops right after the probe: the report says connection OK,
\* no live object and a failed state read
C13_Witness ==
    /\ ret.op = "diagnose" /\ ret.arg = "stops" /\ ret.exc = "none"
    /\ ret.val.v.connection.v.status = StrV(OK)
    /\ ret.val.v.gamemode.v.is_live = BoolV(FALSE)
    /\ ret.val.v.state.v.status = StrV(FAILED)

\* the search of t1 has returned
Searched == calls["t1"].op = "find_safe_column" /\ calls["t1"].pc = "returned"

\* some column is safe at some time in 0..max_wait
SomeColumnSafe(f) ==
    \E c \in 0..(SearchCols - 1), w \in 0..f.max_wait :
        is_column_safe(f.hazards, c, w)

\* some column is safe at some time in 0..max_wait and one hop later
SomeColumnSafeForHop(f) ==
    \E c \in 0..(SearchCols - 1), w \in 0..f.max_wait :
        /\ is_column_safe(f.hazards, c, w)
        /\ is_column_safe(f.hazards, c, w + HopDuration)

Nav == calls["t1"]
Running(f) == f.op = "navigate" /\ ~Over(f)

\* a request for the function name is among the requests s
Asked(s, name) == \E k \in 1..Len(s) : s[k].name = name

C15_CountersFollowObservations ==
    [][Running(Nav)
        => /\ Nav'.total_hops >= Nav.total_hops
           /\ Nav'.deaths =
                IF /\ Nav.pc = "observing" /\ Nav'.pc # "raised"
                   /\ Nav' # Nav
                   /\ game.lives.v < Nav.lives
                THEN Nav.deaths + 1 ELSE Nav.deaths
           /\ Nav'.pc = "returned"
                => Nav'.total_hops >= 0 /\ Nav'.deaths >= 0]_vars

\* a result with a death counted although two lives were lost
C15_Witness ==
    /\ Nav.op = "navigate" /\ Nav.pc = "returned"
    /\ Nav.deaths = 1 /\ Nav.lives = 0 /\ Nav.total_hops > 0

\* C16: a run plans and acts only with budget left, so that the
\* observation that finds the death budget or the hop ceiling used up ends
\* the run; the run then has returned a result, with success = false
\* unless the goal was observed, and with deaths >= 1 when max_deaths = 0
\* and the budget was used up by a death; a run raises only the error of
\* a failed request; a result has success = true only when its state
\* snapshot shows the goal reached.
C16_FailureIsReportedInResult ==
    Nav.op = "navigate"
        => /\ Nav.pc \in {"planning", "acting"} => budget_left(Nav)
           /\ Nav.pc = "raised"
                => Nav.exc \in {"RCConnectionError", "CallError"}
           /\ Nav.pc = "returned"
                => /\ Nav.success <=> goal_reached(Nav, Nav.state)
                   /\ ~Nav.success => ~budget_left(Nav)
                   /\ ~Nav.success /\ Nav.max_deaths = 0
                        /\ Nav.total_hops + Nav.stalls < HopCeiling
                        => Nav.deaths >= 1

\* a run with max_deaths = 0 that returned a failure after a death
C16_Witness ==
    /\ Nav.op = "navigate" /\ Nav.pc = "returned" /\ ~Nav.success
    /\ Nav.max_deaths = 0 /\ Nav.deaths = 1
    /\ Nav.total_hops + Nav.stalls < HopCeiling

\* C17: a hop request is issued only by a run that has read the state and
\* the hazards since its last hop request, and the run then observes the
\* state before it plans again: the step that marks a run as sampled has
\* asked for the state and the hazards, an answered hop ends the mark and
\* is followed by an observation, and a failed hop ends the run.
C17_HopsAreSeparatedByReads ==
    [][/\ Asked(sent', "RequestHop") /\ calls' # calls
            => /\ Running(Nav) /\ Nav.pc = "acting" /\ Nav.sampled
               /\ \/ Nav'.pc = "raised"
                  \/ Nav'.pc = "observing" /\ ~Nav'.sampled
       /\ Nav'.op = "navigate" /\ Nav'.sampled /\ ~Nav.sampled
            => /\ Asked(sent', "GetGameStateJSON")
               /\ Asked(sent', "GetLaneHazardsJSON")
               /\ ~Asked(sent', "RequestHop")]_vars

\* a run that has issued its second hop
C17_Witness ==
    /\ Nav.op = "navigate" /\ Nav.pc = "observing"
    /\ Nav.total_hops = 2 /\ ~Nav.sampled
    /\ Asked(sent, "RequestHop")

\* C19: a tick whose search found no column issues no hop: its action is
\* a wait, its Acting step sends nothing and planning follows the
\* observation; a hop is issued only when the search returned a column,
\* left when the column is to the left of the frog, right when it is to
\* the right, up when it is the frog's column and safe at once, as one
\* RequestHop of one cell.
C19_NoSafeColumnMeansWait ==
    [][Running(Nav) /\ Nav.pc = "acting" /\ calls' # calls
        => /\ ~Nav.search.found
                => Nav.action = "wait" /\ sent' = <<>>
                    /\ Nav'.pc = "observing"
                    /\ Nav'.total_hops = Nav.total_hops
           /\ Asked(sent', "RequestHop")
                => /\ Nav.search.found
                   /\ Nav.action = "left" <=> Nav.search.col < Nav.col
                   /\ Nav.action = "right" <=> Nav.search.col > Nav.col
                   /\ Nav.action = "up"
                        <=> Nav.search.col = Nav.col /\ Nav.search.wait = 0
                   /\ \A k \in 1..Len(sent') :
                        sent'[k].name = "RequestHop"
                            => /\ sent'[k].params = DIRECTIONS[Nav.action]
                               /\ k = Len(sent')]_vars

\* a run that waited because the road ahead was blocked in every column
C19_Witness ==
    /\ Nav.op = "navigate" /\ Nav.pc = "observing"
    /\ Nav.action = "wait" /\ ~Nav.search.found /\ Nav.total_hops = 0

\* C20: reset_game issues StartGame only after one of its waits for the
\* Title state has returned.
C20_StartGameAfterTitleConfirmed ==
    calls["t1"].op = "reset_game"
        => (Count(calls["t1"].log, "StartGame") > 0
                => Count(calls["t1"].log, "Title") > 0)

\* C21: a get_state, a get_hazards or a hop in a valid direction called
\* while the game is unreachable raises RCConnectionError: it returns no
\* value, and the describe requests of a path discovery it ran first were
\* sent and their failure tolerated.
C21_UnreachableGameSurfaces ==
    [][(/\ ret'.op \in {"get_state", "get_hazards", "hop"}
        /\ ret'.op = "hop" => ret'.arg \in DOMAIN DIRECTIONS
        /\ ~game.reachable)
            => /\ ret'.exc = "RCConnectionError"
               /\ ret'.val = NoneV]_vars

\* a get_hazards that found the game unreachable after a path discovery of
\* thirteen tolerated describe requests
C21_Witness ==
    /\ ret.op = "get_hazards" /\ ret.exc = "RCConnectionError"
    /\ ~game.reachable
    /\ Len(sent) = 14
    /\ sent[13].ep = "describe"

\* C22: the retry loop of reset_game retries only on a timed-out wait for
\* Title: the exception its except clause catches is never the
\* RCConnectionError or the CallError of a remote request.
C22_ResetSwallowsNoActuatorError ==
    calls["t1"].op = "reset_game"
        => calls["t1"].caught \notin {"RCConnectionError", "CallError"}

\* a describe request for an object of the class is among the requests s
DescribesClass(s, class_name) ==
    \E k \in 1..Len(s) :
        /\ s[k].ep = "describe"
        /\ \E j \in 1..Len(s[k].path) : s[k].path[j] = class_name

\* C23: a resolved GameMode or frog path stays as it is in every step but
\* a configure() of its client, and a step that has it sends no describe
\* request for its class, whatever the game has become; configure() leaves
\* both paths unresolved, and the next operation that needs the GameMode
\* path starts discovery with the configured map and class names.
C23_PathsDiscoveredOnce ==
    [][/\ (pu["pu1"].gm_path # NoPath /\ ret'.op # "configure")
            => /\ pu'["pu1"].gm_path = pu["pu1"].gm_path
               /\ ~DescribesClass(sent', pu["pu1"].gm_class)
       /\ (pu["pu1"].frog_path # NoPath /\ ret'.op # "configure")
            => /\ pu'["pu1"].frog_path = pu["pu1"].frog_path
               /\ ~DescribesClass(sent', pu["pu1"].frog_class)
       /\ ret'.op = "configure"
            => /\ pu'["pu1"].gm_path = NoPath
               /\ pu'["pu1"].frog_path = NoPath
       /\ (pu["pu1"].gm_path = NoPath
                /\ ret'.op \in {"get_state", "get_state_diff", "get_hazards"})
            => /\ Len(sent') > 0
               /\ sent'[1] = Req("describe",
                                 LevelPath(pu["pu1"].map_name,
                                           pu["pu1"].gm_class, "_0"),
                                 "", NoneV)
               /\ pu'["pu1"].gm_path # NoPath]_vars

\* a get_hazards that used the GameMode path resolved in a level that has
\* since been replaced by another one, without a describe request
C23_Witness ==
    /\ ret.op = "get_hazards" /\ Len(sent) = 1 /\ sent[1].ep = "call"
    /\ game.reachable /\ game.live # {}
    /\ ~HasDefault(pu["pu1"].gm_path)
    /\ pu["pu1"].gm_path \notin game.live
    /\ pu["pu1"].map_name = "TestMap"

\* the candidate paths of a class in the order of the claim
CandidatesInOrder(c, class_name) ==
    <<LevelPath(c.map_name, class_name, "_0"),
      LevelPath(c.map_name, class_name, "_C_0"),
      LevelPath(c.map_name, class_name, "_1"),
      LevelPath("FroggerMap", class_name, "_0"),
      LevelPath("FroggerMap", class_name, "_C_0"),
      LevelPath("FroggerMap", class_name, "_1"),
      LevelPath("TestMap", class_name, "_0"),
      LevelPath("TestMap", class_name, "_C_0"),
      LevelPath("TestMap", class_name, "_1"),
      LevelPath("DefaultMap", class_name, "_0"),
      LevelPath("DefaultMap", class_name, "_C_0"),
      LevelPath("DefaultMap", class_name, "_1"),
      <<"/Script/", c.module_name, ".", "Default__", class_name>>>>

\* the describe request for the path is answered with a description
Describable(g, path) == g.reachable /\ path \in g.live

\* path is what a discovery over the candidates cands in the game g returns,
\* and reqs begins with the describe requests it sends
DiscoveryOf(g, cands, path, reqs) ==
    \E k \in 1..Len(cands) :
        /\ \A j \in 1..(k - 1) : ~Describable(g, cands[j])
        /\ Describable(g, cands[k]) \/ k = Len(cands)
        /\ path = cands[k]
        /\ Len(reqs) >= k
        /\ \A j \in 1..k : reqs[j] = Req("describe", cands[j], "", NoneV)

\* C24: a discovery probes the candidates in their fixed order and returns
\* the first one whose describe request is answered with a description,
\* having sent the describe requests up to that one; when none is, the
\* game unreachable included, it returns the Default__ path of the class
\* and raises nothing; a path without "Default__" is returned only when
\* its describe request succeeded.
C24_DiscoveryReturnsFirstDescribed ==
    [][/\ (pu["pu1"].gm_path = NoPath
                /\ ret'.op \in {"get_state", "get_state_diff", "get_hazards"})
            => /\ DiscoveryOf(game,
                    CandidatesInOrder(pu["pu1"], pu["pu1"].gm_class),
                    pu'["pu1"].gm_path, sent')
               /\ ~HasDefault(pu'["pu1"].gm_path)
                    => Describable(game, pu'["pu1"].gm_path)
               /\ ret'.exc \in {"none", "RCConnectionError"}
       /\ (pu["pu1"].frog_path = NoPath
                /\ ret'.op = "hop" /\ ret'.arg \in DOMAIN DIRECTIONS)
            => /\ DiscoveryOf(game,
                    CandidatesInOrder(pu["pu1"], pu["pu1"].frog_class),
                    pu'["pu1"].frog_path, sent')
               /\ ~HasDefault(pu'["pu1"].frog_path)
                    => Describable(game, pu'["pu1"].frog_path)
               /\ ret'.exc \in {"none", "CallError", "RCConnectionError"}]_vars

\* a hop of a client configured for TestMap that found the frog at the
\* first candidate while a frog of FroggerMain, a later candidate, was
\* alive too
C24_Witness ==
    /\ ret.op = "hop" /\ ret.exc = "none" /\ Len(sent) = 2
    /\ pu["pu1"].map_name = "TestMap"
    /\ pu["pu1"].frog_path = LevelPath("TestMap", "FrogCharacter", "_0")
    /\ LevelPath("FroggerMain", "FrogCharacter", "_1") \in game.live

\* the frame is wait_for_state, called on its own or by reset_game
InWait(f) ==
    \/ f.op = "wait_for_state"
    \/ f.op = "reset_game" /\ f.pc \in {"wait_title", "wait_playing"}

\* the target is the name of one of the seven states, in any letter case
IsStateName(target) ==
    \E k \in DOMAIN StateNames : SameIgnoringCase(StateNames[k], target)

\* the target a wait was called with accepts the name of a state if and
\* only if it accepts the state's code
AcceptsAlike(target) ==
    \A k \in DOMAIN StateNames :
        matches_current(StrV(StateNames[k]), target)
            <=> matches_current(IntV(k - 1), target)

\* C25: for every target wait_for_state is called with and every one of
\* the seven named states, a polled gameState that is the state's name is
\* accepted if and only if a polled gameState that is the state's integer
\* code is accepted.
C25_NameAndCodeAlike ==
    InWait(calls["t1"]) => AcceptsAlike(calls["t1"].target)

\* C25 amended: the same for every target that is the name of one of the
\* seven states, in any letter case.
C25_NameAndCodeAlikeForStateNames ==
    (InWait(calls["t1"]) /\ IsStateName(calls["t1"].target))
        => AcceptsAlike(calls["t1"].target)

\* a wait for "playing" that returned a state whose gameState is the code 2
C25_Witness ==
    /\ calls["t1"].op = "wait_for_state" /\ calls["t1"].pc = "returned"
    /\ calls["t1"].target = <<"p", "l", "a", "y", "i", "n", "g">>
    /\ GameStateOf(calls["t1"].state) = IntV(2)

\* the GameMode properties of the fallback and the keys they are stored
\* under, in the order of the reads
FallbackProps ==
    <<"CurrentState", "CurrentWave", "HomeSlotsFilledCount", "RemainingTime">>
FallbackKeys ==
    <<"gameState", "wave", "homeSlotsFilledCount", "timeRemaining">>

\* the first of the GameMode properties the game refuses to read, 5 when
\* it reads them all
FirstRefused(g) ==
    IF \E j \in 1..4 : FallbackProps[j] \in g.rejects
    THEN CHOOSE j \in 1..4 :
            /\ FallbackProps[j] \in g.rejects
            /\ \A i \in 1..(j - 1) : FallbackProps[i] \notin g.rejects
    ELSE 5

\* GetGameStateJSON of the game returns a non-empty value that is JSON
SingleCallServes(g) ==
    "GetGameStateJSON" \notin g.rejects /\ g.stateJSON = "json"

\* a read of the property is among the requests s
Reads(s, name) ==
    \E k \in 1..Len(s) : s[k].ep = "property" /\ s[k].name = name

\* C26: a get_state of a reachable game whose GetGameStateJSON returns a
\* non-empty value that is JSON returns the parsed value and reads no
\* property; when the call is rejected or its value is empty or no JSON,
\* get_state reads the GameMode properties in order up to the first
\* rejected one and no further, stores the ones read before it, and returns
\* a dict with frogPos, which is [0, 0] when GridPosition is rejected or is
\* no object.
C26_SingleCallThenFallback ==
    [][(ret'.op = "get_state" /\ game.reachable)
        => /\ ret'.exc = "none"
           /\ SingleCallServes(game)
                => /\ ret'.val = DictV(StateDoc(game))
                   /\ \A k \in 1..Len(sent') : sent'[k].ep # "property"
           /\ ~SingleCallServes(game)
                => /\ \A j \in 1..4 :
                        /\ Reads(sent', FallbackProps[j])
                            <=> j <= FirstRefused(game)
                        /\ FallbackKeys[j] \in DOMAIN ret'.val.v
                            <=> j < FirstRefused(game)
                   /\ Reads(sent', "GridPosition")
                   /\ "frogPos" \in DOMAIN ret'.val.v
                   /\ ("GridPosition" \in game.rejects
                            \/ game.positionAs # "struct")
                        => ret'.val.v.frogPos = ListV(<<IntV(0), IntV(0)>>)
                   /\ ("GridPosition" \notin game.rejects
                            /\ game.positionAs = "struct")
                        => ret'.val.v.frogPos =
                                ListV(<<IntV(game.frog[1]),
                                        IntV(game.frog[2])>>)]_vars

\* a fallback that stopped at the rejected CurrentWave and still read the
\* frog's position
C26_Witness ==
    /\ ret.op = "get_state" /\ ret.exc = "none"
    /\ DOMAIN ret.val.v = {"gameState", "frogPos"}
    /\ Reads(sent, "CurrentWave") /\ ~Reads(sent, "HomeSlotsFilledCount")
    /\ "CurrentWave" \in game.rejects

\* the diff baseline of the client
Baseline == pu["pu1"].prev_state

\* C27: the diff baseline changes only in a get_state_diff that returns,
\* and becomes the state that call returns as current; every other step,
\* of get_state, hop, configure, reset_game with its waits, or the game,
\* leaves it as it is, and so does a get_state_diff whose state read
\* raises; the changes of a returned diff are those from the baseline the
\* last returned diff left.
C27_BaselineChangesOnlyOnDiff ==
    [][/\ Baseline' # Baseline
            => /\ ret' # ret
               /\ ret'.op = "get_state_diff" /\ ret'.exc = "none"
       /\ (ret' # ret /\ ret'.op = "get_state_diff")
            => IF ret'.exc = "none"
               THEN /\ Baseline' = ret'.val.v.current
                    /\ ret'.val.v.changes =
                            DictV(changes_of(Baseline, ret'.val.v.current))
               ELSE Baseline' = Baseline
       /\ calls' # calls => Baseline' = Baseline]_vars

\* a get_state_diff that raised, after a reset_game that returned, with the
\* baseline of an earlier diff still in place
C27_Witness ==
    /\ ret.op = "get_state_diff" /\ ret.exc = "RCConnectionError"
    /\ Baseline # NoneV
    /\ calls["t1"].op = "reset_game" /\ calls["t1"].pc = "returned"
    /\ GameStateOf(Baseline) # GameStateOf(calls["t1"].state)

====
